---------------------------- MODULE Spec2Model ----------------------------
(***************************************************************************)
(* veelog: the storage engine (db/src/data.rs) over an ordered byte-keyed  *)
(* store, and the ADIF import pipeline that feeds it.                      *)
(*                                                                         *)
(* Text and binary data are sequences of byte values (0..255).  A store is *)
(* a function from the keys it holds to their values.  usize values of the *)
(* model stay below 2^31, so the upper four bytes of their little-endian   *)
(* encoding are zero.  Option values are sequences of length 0 (None) or 1 *)
(* (Some).  The store is reliable on reads; a write may fail where the     *)
(* code handles the failure (sled's insert returning Err).                 *)
(***************************************************************************)
EXTENDS Integers, Sequences, FiniteSets, TLC

VARIABLES
    store,   \* the sled Db: key bytes -> value bytes
    log,     \* "none": no Log handle; "open": a Log owns the Db
    last,    \* the last call: its name, arguments, result and output
    hist,    \* records of the successful insert_record calls since new_init
    fresh,   \* TRUE while the store was made by new_init and written only by them
    header0, \* Some(header given to the successful new_init), else None
    writers  \* the insert_record calls in progress, one per writer, step by step

vars == <<store, log, last, hist, fresh, header0, writers>>

\* ------------------------------------------------------------ bounds

\* insert_record and import are not called once INDEX has reached MaxIdx.
MaxIdx == 2
\* Longest file (number of records) handed to import.
MaxFileLen == 2
\* Largest record index whose key is computed on its own.
MaxKeyIdx == 260
\* Longest file (number of records) that is serialized and parsed back.
MaxRoundTripLen == 2
\* Most fields, besides the date and the time, of a record imported on its own.
MaxImportFields == 2
\* Most characters of a grid square given to the validation.
MaxGridLen == 7
\* Most tags of a text given to the tokenizer.
MaxTags == 2
\* Most insert_record calls a writer makes when the calls are taken step by step.
MaxCalls == 2

\* ------------------------------------------------------------ bytes

None == <<>>
Some(x) == <<x>>

to_ascii_uppercase_byte(b) == IF b >= 97 /\ b <= 122 THEN b - 32 ELSE b
to_ascii_lowercase_byte(b) == IF b >= 65 /\ b <= 90 THEN b + 32 ELSE b

to_ascii_uppercase(bs) == [i \in 1..Len(bs) |-> to_ascii_uppercase_byte(bs[i])]
to_ascii_lowercase(bs) == [i \in 1..Len(bs) |-> to_ascii_lowercase_byte(bs[i])]

is_ascii(bs) == \A i \in 1..Len(bs) : bs[i] < 128

\* The value of little-endian bytes (from_le_bytes).
RECURSIVE from_le(_)
from_le(bs) == IF bs = <<>> THEN 0 ELSE bs[1] + 256 * from_le(Tail(bs))

\* The n low little-endian bytes of v, padded with zero bytes to width w.
RECURSIVE le_bytes(_, _)
le_bytes(v, w) == IF w = 0 THEN <<>> ELSE <<v % 256>> \o le_bytes(v \div 256, w - 1)

usize_to_le_bytes_short(idx) == le_bytes(idx, 1)

\* The eight bytes of idx, most significant first (to_be_bytes).
usize_to_be_bytes(idx) == [n \in 1..8 |-> le_bytes(idx, 8)[9 - n]]
usize_to_le_bytes(idx) == le_bytes(idx, 8)

usize_from_le_bytes(v) ==
    IF Len(v) = 8 THEN [ok |-> TRUE, val |-> from_le(v)] ELSE [ok |-> FALSE, val |-> 0]

\* ------------------------------------------------------------ reserved keys

KEY_MAGIC == <<77, 65, 71, 73, 67>>
KEY_INFO == <<73, 78, 70, 79>>
KEY_HEADER == <<72, 69, 65, 68, 69, 82>>
KEY_INDEX == <<73, 78, 68, 69, 88>>

VEELOG_MAGIC ==
    <<68, 55, 56, 52, 67, 66, 57, 69, 53, 56, 68, 50, 55, 57, 66, 52,
      50, 70, 68, 65, 52, 68, 48, 65, 53, 70, 67, 55, 68, 65, 56, 48>>

INFO_TEXT ==
    <<68, 97, 116, 97, 98, 97, 115, 101, 32, 103, 101, 110, 101, 114, 97, 116,
      101, 100, 32, 98, 121, 32, 118, 101, 101, 108, 111, 103, 46, 32, 86, 105,
      115, 105, 116, 32, 104, 116, 116, 112, 115, 58, 47, 47, 103, 105, 116,
      104, 117, 98, 46, 99, 111, 109, 47, 104, 102, 45, 105, 107, 101, 97, 47,
      118, 101, 101, 108, 111, 103, 32, 102, 111, 114, 32, 109, 111, 114, 101,
      32, 105, 110, 102, 111, 114, 109, 97, 116, 105, 111, 110, 46>>

\* ------------------------------------------------------------ the store

EmptyDb == [k \in {} |-> <<>>]

db_get(db, key) == IF key \in DOMAIN db THEN Some(db[key]) ELSE None

db_insert(db, key, val) ==
    [k \in DOMAIN db \cup {key} |-> IF k = key THEN val ELSE db[k]]

db_is_empty_no_magic(db) == KEY_MAGIC \notin DOMAIN db
db_is_empty(db) == DOMAIN db = {}


\* ------------------------------------------------------------ records

\* FieldType's variants in declaration order; a variant's index is its
\* position less one.  Only Other carries a name.
FieldTypeVariants ==
    <<"Timestamp", "WorkedCall", "Frequency", "Mode", "SentRST", "RcvdRST",
      "GridSquare", "PrimaryAdminSubdiv", "SentSerial", "RcvdSerial", "DXCC",
      "CQZ", "ITUZ", "POTARef", "Comment", "Name", "QTH", "Other">>

Unit(variant) == [v |-> variant, n |-> <<>>]
Other(name) == [v |-> "Other", n |-> name]

variant_index(ty) == CHOOSE i \in 0..(Len(FieldTypeVariants) - 1) : FieldTypeVariants[i + 1] = ty.v

\* A LogRecord is its IndexMap: a sequence of <<FieldType, String>> entries
\* with distinct keys, in insertion order.
LogRecord_new == <<>>

has_field(rec, ty) == \E i \in 1..Len(rec) : rec[i][1] = ty

\* IndexMap::insert: a present key keeps its place and takes the new value, an
\* absent key is appended.
insert_field(rec, ty, val) ==
    IF has_field(rec, ty)
    THEN [i \in 1..Len(rec) |-> IF rec[i][1] = ty THEN <<ty, val>> ELSE rec[i]]
    ELSE Append(rec, <<ty, val>>)

get_field(rec, ty) ==
    IF has_field(rec, ty)
    THEN Some(rec[CHOOSE i \in 1..Len(rec) : rec[i][1] = ty][2])
    ELSE None

\* ------------------------------------------------------------ bincode
\* config::standard(): little-endian, variable-width integers.  An integer
\* below 251 is one byte; 251, 252 and 253 announce a u16, u32 and u64.

varint_encode(u) ==
    IF u < 251 THEN <<u>>
    ELSE IF u < 65536 THEN <<251>> \o le_bytes(u, 2)
    ELSE <<252>> \o le_bytes(u, 4)

Fail == [ok |-> FALSE, val |-> <<>>, pos |-> 0]
Done(val, pos) == [ok |-> TRUE, val |-> val, pos |-> pos]

\* Decoding reads from position p of bs; maxw is the width in bytes of the
\* integer type asked for.
read_wide(bs, p, w, maxw) ==
    IF w <= maxw /\ p + w <= Len(bs)
    THEN Done(from_le(SubSeq(bs, p + 1, p + w)), p + w + 1)
    ELSE Fail

varint_decode(bs, p, maxw) ==
    IF p > Len(bs) THEN Fail
    ELSE IF bs[p] < 251 THEN Done(bs[p], p + 1)
    ELSE IF bs[p] = 251 THEN read_wide(bs, p, 2, maxw)
    ELSE IF bs[p] = 252 THEN read_wide(bs, p, 4, maxw)
    ELSE IF bs[p] = 253 THEN read_wide(bs, p, 8, maxw)
    ELSE Fail

\* String::from_utf8 on the byte strings of the model, which hold ASCII or
\* bytes that no UTF-8 text contains.
is_utf8(bs) == \A i \in 1..Len(bs) : bs[i] < 128

encode_str(str) == varint_encode(Len(str)) \o str

\* The bytes of a string whose length n has been decoded.
take_str(bs, n) ==
    IF ~n.ok THEN Fail
    ELSE IF n.pos + n.val - 1 > Len(bs) THEN Fail
    ELSE IF is_utf8(SubSeq(bs, n.pos, n.pos + n.val - 1))
    THEN Done(SubSeq(bs, n.pos, n.pos + n.val - 1), n.pos + n.val)
    ELSE Fail

decode_str(bs, p) == take_str(bs, varint_decode(bs, p, 8))

encode_field_type(ty) ==
    IF ty.v = "Other"
    THEN varint_encode(variant_index(ty)) \o encode_str(ty.n)
    ELSE varint_encode(variant_index(ty))

\* Other's payload, once its name n has been decoded.
take_other(n) == IF n.ok THEN Done(Other(n.val), n.pos) ELSE Fail

\* The variant whose index d has been decoded.
take_variant(bs, d) ==
    IF ~d.ok THEN Fail
    ELSE IF d.val >= Len(FieldTypeVariants) THEN Fail
    ELSE IF FieldTypeVariants[d.val + 1] = "Other" THEN take_other(decode_str(bs, d.pos))
    ELSE Done(Unit(FieldTypeVariants[d.val + 1]), d.pos)

decode_field_type(bs, p) == take_variant(bs, varint_decode(bs, p, 4))

RECURSIVE encode_entries(_)
encode_entries(rec) ==
    IF rec = <<>> THEN <<>>
    ELSE encode_field_type(rec[1][1]) \o encode_str(rec[1][2]) \o encode_entries(Tail(rec))

\* Log::encode_record on a LogRecord: the map's length, then its entries.
encode_record(rec) == varint_encode(Len(rec)) \o encode_entries(rec)

\* The n entries from position p on, inserted into acc one by one: the key k,
\* then the value v.
RECURSIVE decode_entries(_, _, _, _)
decode_entry_insert(bs, n, acc, key, v) ==
    IF ~v.ok THEN Fail ELSE decode_entries(bs, v.pos, n - 1, insert_field(acc, key, v.val))

decode_entry_value(bs, n, acc, k) ==
    IF ~k.ok THEN Fail ELSE decode_entry_insert(bs, n, acc, k.val, decode_str(bs, k.pos))

decode_entries(bs, p, n, acc) ==
    IF n = 0 THEN Done(acc, p) ELSE decode_entry_value(bs, n, acc, decode_field_type(bs, p))

\* The map whose length n has been decoded.
take_map(enc, n) == IF ~n.ok THEN Fail ELSE decode_entries(enc, n.pos, n.val, LogRecord_new)

\* Log::decode_record::<LogRecord>: bytes after the value are not looked at.
decode_record(enc) == take_map(enc, varint_decode(enc, 1, 8))

\* LogHeader: three strings, in field order.
CARGO_PKG_VERSION == <<48, 46, 49, 46, 48>>

LogHeader_new(op_call, comment) ==
    [version |-> CARGO_PKG_VERSION, op_call |-> op_call, comment |-> comment]

encode_header_swapped(h) == encode_str(h.version) \o encode_str(h.comment) \o encode_str(h.op_call)
encode_header(h) == encode_str(h.version) \o encode_str(h.op_call) \o encode_str(h.comment)

\* n strings from position p on, appended to acc.
RECURSIVE decode_strs(_, _, _, _)
take_strs(bs, n, acc, str) ==
    IF ~str.ok THEN Fail ELSE decode_strs(bs, str.pos, n - 1, Append(acc, str.val))

decode_strs(bs, p, n, acc) ==
    IF n = 0 THEN Done(acc, p) ELSE take_strs(bs, n, acc, decode_str(bs, p))

header_of(strs) ==
    IF ~strs.ok THEN Fail
    ELSE Done([version |-> strs.val[1], op_call |-> strs.val[2], comment |-> strs.val[3]], strs.pos)

\* Log::decode_record::<LogHeader>
decode_header(enc) == header_of(decode_strs(enc, 1, 3, <<>>))

\* ------------------------------------------------------------ Log
\* Every operation is an operator from the store (and its arguments) to
\* [res, db, out]: res is "ok", "err" (an Err is returned) or "panic" (the
\* call unwinds); db is the store it leaves; out is the value returned.

Ret(res, db, out) == [res |-> res, db |-> db, out |-> out]

magic_matches_exact(val) == val = VEELOG_MAGIC
magic_matches(val) == to_ascii_uppercase(val) = VEELOG_MAGIC

\* Log::new
Log_new(db) ==
    LET db_value == db_get(db, KEY_MAGIC) IN
    IF db_value = None THEN Ret("err", db, "uninitialized")
    ELSE IF magic_matches(db_value[1]) THEN Ret("ok", db, "log")
    ELSE Ret("err", db, "magic")

\* Log::set_key; fails says that sled's insert returns Err.
set_key(db, key, val, fails) ==
    IF fails THEN Ret("err", db, "sled") ELSE Ret("ok", db_insert(db, key, val), "unit")

\* Log::set_idx
set_idx_header_key(db, idx, fails) == set_key(db, KEY_HEADER, usize_to_le_bytes(idx), fails)
set_idx(db, idx, fails) == set_key(db, KEY_INDEX, usize_to_le_bytes(idx), fails)

\* Log::init_db; fault is the number (1..4) of the write that fails, 0 for none.
init_db(db, header, fault) ==
    LET a == set_key(db, KEY_MAGIC, VEELOG_MAGIC, fault = 1) IN
    IF a.res # "ok" THEN a
    ELSE LET b == set_key(a.db, KEY_INFO, INFO_TEXT, fault = 2) IN
         IF b.res # "ok" THEN b
         ELSE LET c == set_key(b.db, KEY_HEADER, encode_header(header), fault = 3) IN
              IF c.res # "ok" THEN c
              ELSE set_idx(c.db, 0, fault = 4)

\* Log::new_init
Log_new_init(db, header, fault) ==
    IF db_is_empty(db)
    THEN LET i == init_db(db, header, fault) IN
         IF i.res = "ok" THEN Ret("ok", i.db, "log") ELSE i
    ELSE Ret("err", db, "non-empty")

\* Log::get_idx
get_idx(db) ==
    LET v == db_get(db, KEY_INDEX) IN
    IF v = None THEN Ret("panic", db, "INDEX does not exist")
    ELSE LET u == usize_from_le_bytes(v[1]) IN
         IF u.ok THEN Ret("ok", db, u.val) ELSE Ret("panic", db, "Invalid INDEX value")

\* Log::get_header
header_result(db, d) == IF d.ok THEN Ret("ok", db, d.val) ELSE Ret("err", db, "decode")

get_header(db) ==
    IF db_get(db, KEY_HEADER) = None THEN Ret("err", db, "HEADER does not exist in db")
    ELSE header_result(db, decode_header(db_get(db, KEY_HEADER)[1]))

\* Log::get_record: an absent slot is None; a slot that does not decode panics.
decoded_or_none(db, d) == IF d.ok THEN Ret("ok", db, Some(d.val)) ELSE Ret("ok", db, None)
decoded_or_panic(db, d) ==
    IF d.ok THEN Ret("ok", db, Some(d.val)) ELSE Ret("panic", db, "Could not decode record")

get_record(db, idx) ==
    IF db_get(db, usize_to_le_bytes(idx)) = None THEN Ret("ok", db, None)
    ELSE decoded_or_panic(db, decode_record(db_get(db, usize_to_le_bytes(idx))[1]))

\* Log::modify_record; fails says that sled's insert returns Err (todo!()).
modify_record_short_key(db, idx, record, fails) ==
    IF fails THEN Ret("panic", db, "not yet implemented")
    ELSE Ret("ok", db_insert(db, usize_to_le_bytes_short(idx), encode_record(record)), "unit")
modify_record(db, idx, record, fails) ==
    LET enc == encode_record(record) IN
    IF fails THEN Ret("panic", db, "not yet implemented")
    ELSE Ret("ok", db_insert(db, usize_to_le_bytes(idx), enc), "unit")

\* Log::insert_record; fault names the write that fails: "record", "index"
\* or "none".
insert_record_index_first(db, record, fault) ==
    LET i == get_idx(db) IN
    IF i.res # "ok" THEN i
    ELSE LET s == set_idx(db, i.out + 1, fault = "index") IN
         IF s.res # "ok" THEN s
         ELSE modify_record(s.db, i.out + 1, record, fault = "record")
insert_record_no_bump(db, record, fault) ==
    LET i == get_idx(db) IN
    IF i.res # "ok" THEN i ELSE modify_record(db, i.out, record, fault = "record")
insert_record(db, record, fault) ==
    LET i == get_idx(db) IN
    IF i.res # "ok" THEN i
    ELSE LET m == modify_record(db, i.out, record, fault = "record") IN
         IF m.res # "ok" THEN m
         ELSE set_idx(m.db, i.out + 1, fault = "index")

\* Log::get_records: the loop over 0..get_idx(), from slot i with acc gathered.
RECURSIVE get_records_from(_, _, _, _)
\* The match on get_record's result r for slot i.
get_records_match(db, i, n, acc, r) ==
    IF r.res # "ok" THEN r
    ELSE IF r.out = None THEN get_records_from(db, i + 1, n, acc)
    ELSE get_records_from(db, i + 1, n, Append(acc, r.out[1]))

get_records_from(db, i, n, acc) ==
    IF i >= n THEN Ret("ok", db, acc) ELSE get_records_match(db, i, n, acc, get_record(db, i))

records_upto(db, n) == IF n.res # "ok" THEN n ELSE get_records_from(db, 0, n.out, <<>>)

get_records(db) == records_upto(db, get_idx(db))

\* ------------------------------------------------------------ ADIF field names

N_CALL == <<67, 65, 76, 76>>
N_FREQ == <<70, 82, 69, 81>>
N_MODE == <<77, 79, 68, 69>>
N_RST_SENT == <<82, 83, 84, 95, 83, 69, 78, 84>>
N_RST_RCVD == <<82, 83, 84, 95, 82, 67, 86, 68>>
N_GRIDSQUARE == <<71, 82, 73, 68, 83, 81, 85, 65, 82, 69>>
N_STATE == <<83, 84, 65, 84, 69>>
N_STX == <<83, 84, 88>>
N_SRX == <<83, 82, 88>>
N_DXCC == <<68, 88, 67, 67>>
N_CQZ == <<67, 81, 90>>
N_ITUZ == <<73, 84, 85, 90>>
N_POTA_REF == <<80, 79, 84, 65, 95, 82, 69, 70>>
N_COMMENT == <<67, 79, 77, 77, 69, 78, 84>>
N_NAME == <<78, 65, 77, 69>>
N_QTH == <<81, 84, 72>>
N_STATION_CALLSIGN == <<83, 84, 65, 84, 73, 79, 78, 95, 67, 65, 76, 76, 83, 73, 71, 78>>
N_OPERATOR == <<79, 80, 69, 82, 65, 84, 79, 82>>
N_BAND == <<66, 65, 78, 68>>
N_TIME_OFF == <<84, 73, 77, 69, 95, 79, 70, 70>>
N_QSO_DATE_OFF == <<81, 83, 79, 95, 68, 65, 84, 69, 95, 79, 70, 70>>
N_TX_PWR == <<84, 88, 95, 80, 87, 82>>
N_SUBMODE == <<83, 85, 66, 77, 79, 68, 69>>
N_QSO_DATE == <<81, 83, 79, 95, 68, 65, 84, 69>>
N_TIME_ON == <<84, 73, 77, 69, 95, 79, 78>>

PREFIX_MY == <<77, 89, 95>>
PREFIX_SIG == <<83, 73, 71>>
PREFIX_QSL == <<81, 83, 76>>

\* FieldType::from_adif_field: the name table, else Other(name).
AdifFieldTable ==
    <<<<N_CALL, "WorkedCall">>, <<N_FREQ, "Frequency">>, <<N_MODE, "Mode">>,
      <<N_RST_SENT, "SentRST">>, <<N_RST_RCVD, "RcvdRST">>,
      <<N_GRIDSQUARE, "GridSquare">>, <<N_STATE, "PrimaryAdminSubdiv">>,
      <<N_STX, "SentSerial">>, <<N_SRX, "RcvdSerial">>, <<N_DXCC, "DXCC">>,
      <<N_CQZ, "CQZ">>, <<N_ITUZ, "ITUZ">>, <<N_POTA_REF, "POTARef">>,
      <<N_COMMENT, "Comment">>, <<N_NAME, "Name">>, <<N_QTH, "QTH">>>>

from_adif_field(field_name) ==
    IF \E i \in 1..Len(AdifFieldTable) : AdifFieldTable[i][1] = field_name
    THEN Unit(AdifFieldTable[CHOOSE i \in 1..Len(AdifFieldTable) : AdifFieldTable[i][1] = field_name][2])
    ELSE Other(field_name)

\* ------------------------------------------------------------ ADIF values

\* ADIFType: Str carries text; Bool and Num carry nothing the import reads.
Str(text) == [t |-> "Str", s |-> text]
Bool == [t |-> "Bool", s |-> <<>>]

\* ADIFType::extract_value
extract_value(value) ==
    IF value.t = "Str" THEN [ok |-> TRUE, val |-> value.s] ELSE [ok |-> FALSE, val |-> <<>>]

\* str::get(..3) on an ASCII name: the first three bytes, if there are three.
get_prefix3(field_name) ==
    IF Len(field_name) >= 3 THEN Some(SubSeq(field_name, 1, 3)) ELSE None

\* str::trim_matches('0')
RECURSIVE trim_start_zero(_)
trim_start_zero(str) ==
    IF str # <<>> /\ str[1] = 48 THEN trim_start_zero(Tail(str)) ELSE str

RECURSIVE trim_end_zero(_)
trim_end_zero(str) ==
    IF str # <<>> /\ str[Len(str)] = 48 THEN trim_end_zero(SubSeq(str, 1, Len(str) - 1)) ELSE str

trim_matches_zero(str) == trim_end_zero(trim_start_zero(str))

\* Variants of the validation: without the ASCII check, with every letter in
\* upper case, and with the case of the last two characters exchanged.
prettyvalidate_gridsquare_any_text(grid) ==
    IF Len(grid) = 4 THEN [ok |-> TRUE, val |-> to_ascii_uppercase(grid)]
    ELSE IF Len(grid) = 6
    THEN [ok |-> TRUE,
          val |-> to_ascii_uppercase(SubSeq(grid, 1, 4)) \o to_ascii_lowercase(SubSeq(grid, 5, 6))]
    ELSE [ok |-> FALSE, val |-> <<>>]

prettyvalidate_gridsquare_all_upper(grid) ==
    IF ~is_ascii(grid) \/ Len(grid) \notin {4, 6} THEN [ok |-> FALSE, val |-> <<>>]
    ELSE [ok |-> TRUE, val |-> to_ascii_uppercase(grid)]

prettyvalidate_gridsquare_swap_case(grid) ==
    IF ~is_ascii(grid) \/ Len(grid) \notin {4, 6} THEN [ok |-> FALSE, val |-> <<>>]
    ELSE [ok |-> TRUE,
          val |-> [n \in 1..Len(grid) |->
                    IF n <= 4 THEN to_ascii_uppercase_byte(grid[n])
                    ELSE IF grid[n] = to_ascii_lowercase_byte(grid[n])
                    THEN to_ascii_uppercase_byte(grid[n])
                    ELSE to_ascii_lowercase_byte(grid[n])]]

\* db::util::pretty_gridsquare
pretty_gridsquare(grid) ==
    IF ~is_ascii(grid) THEN [ok |-> FALSE, val |-> <<>>]
    ELSE IF Len(grid) = 4 THEN [ok |-> TRUE, val |-> to_ascii_uppercase(grid)]
    ELSE IF Len(grid) = 6
    THEN [ok |-> TRUE,
          val |-> to_ascii_uppercase(SubSeq(grid, 1, 4)) \o to_ascii_lowercase(SubSeq(grid, 5, 6))]
    ELSE [ok |-> FALSE, val |-> <<>>]

\* util::prettyvalidate_gridsquare
prettyvalidate_gridsquare(grid) ==
    IF ~is_ascii(grid) THEN [ok |-> FALSE, val |-> <<>>]
    ELSE IF Len(grid) = 4 THEN [ok |-> TRUE, val |-> to_ascii_uppercase(grid)]
    ELSE IF Len(grid) = 6
    THEN [ok |-> TRUE,
          val |-> to_ascii_uppercase(SubSeq(grid, 1, 4)) \o to_ascii_lowercase(SubSeq(grid, 5, 6))]
    ELSE [ok |-> FALSE, val |-> <<>>]

\* ------------------------------------------------------------ dates and times
\* jiff's strtime::parse on the texts of the model: a date is YYYYMMDD, a time
\* is HHMMSS, all digits; a field out of its range is an error.

is_digits(str) == \A i \in 1..Len(str) : str[i] >= 48 /\ str[i] <= 57

RECURSIVE digits_value(_)
digits_value(str) ==
    IF str = <<>> THEN 0 ELSE 10 * digits_value(SubSeq(str, 1, Len(str) - 1)) + (str[Len(str)] - 48)

is_leap_year(y) == (y % 4 = 0 /\ y % 100 # 0) \/ y % 400 = 0

days_in_month(y, m) ==
    IF m = 2 THEN (IF is_leap_year(y) THEN 29 ELSE 28)
    ELSE IF m \in {4, 6, 9, 11} THEN 30 ELSE 31

\* strtime::parse("%Y%m%d", val) and then to_date()
parse_date(val) ==
    IF Len(val) # 8 \/ ~is_digits(val) THEN [ok |-> FALSE, val |-> <<>>]
    ELSE LET y == digits_value(SubSeq(val, 1, 4))
             m == digits_value(SubSeq(val, 5, 6))
             d == digits_value(SubSeq(val, 7, 8))
         IN IF m >= 1 /\ m <= 12 /\ d >= 1 /\ d <= days_in_month(y, m)
            THEN [ok |-> TRUE, val |-> <<y, m, d>>]
            ELSE [ok |-> FALSE, val |-> <<>>]

\* strtime::parse("%H%M%S", val) and then to_time()
parse_time(val) ==
    IF Len(val) # 6 \/ ~is_digits(val) THEN [ok |-> FALSE, val |-> <<>>]
    ELSE LET h == digits_value(SubSeq(val, 1, 2))
             m == digits_value(SubSeq(val, 3, 4))
             sec == digits_value(SubSeq(val, 5, 6))
         IN IF h <= 23 /\ m <= 59 /\ sec <= 59
            THEN [ok |-> TRUE, val |-> <<h, m, sec>>]
            ELSE [ok |-> FALSE, val |-> <<>>]

digits2(n) == <<48 + ((n \div 10) % 10), 48 + (n % 10)>>
digits4(n) == digits2(n \div 100) \o digits2(n % 100)

\* d.to_datetime(t).to_zoned(UTC).timestamp().to_string(): in UTC the civil
\* fields are the instant's, printed as YYYY-MM-DDTHH:MM:SSZ.
timestamp_to_string(d, t) ==
    digits4(d[1]) \o <<45>> \o digits2(d[2]) \o <<45>> \o digits2(d[3]) \o <<84>>
    \o digits2(t[1]) \o <<58>> \o digits2(t[2]) \o <<58>> \o digits2(t[3]) \o <<90>>

\* LogRecord::insert_timestamp
insert_timestamp(rec, d, t) == insert_field(rec, Unit("Timestamp"), timestamp_to_string(d, t))

\* ------------------------------------------------------------ import

SkippedNames_without_SUBMODE ==
    {N_STATION_CALLSIGN, N_OPERATOR, N_BAND, N_TIME_OFF, N_QSO_DATE_OFF, N_TX_PWR}

SkippedNames ==
    {N_STATION_CALLSIGN, N_OPERATOR, N_BAND, N_TIME_OFF, N_QSO_DATE_OFF, N_TX_PWR, N_SUBMODE}

\* The state of the loop over one ADIF record's fields.
Fields(ok, rec, date, time) == [ok |-> ok, rec |-> rec, date |-> date, time |-> time]

\* One turn of the loop over the fields: the match on the field's name.
import_value(st, field_name, val) ==
    IF ~val.ok THEN Fields(FALSE, st.rec, st.date, st.time)
    ELSE IF get_prefix3(field_name) \in {Some(PREFIX_MY), Some(PREFIX_SIG), Some(PREFIX_QSL)} THEN st
    ELSE IF field_name \in SkippedNames THEN st
    ELSE IF field_name = N_FREQ
    THEN Fields(TRUE, insert_field(st.rec, from_adif_field(field_name), trim_matches_zero(val.val)),
                st.date, st.time)
    ELSE IF field_name = N_GRIDSQUARE
    THEN LET g == prettyvalidate_gridsquare(val.val) IN
         IF g.ok
         THEN Fields(TRUE, insert_field(st.rec, from_adif_field(field_name), g.val), st.date, st.time)
         ELSE Fields(FALSE, st.rec, st.date, st.time)
    ELSE IF field_name = N_QSO_DATE
    THEN LET d == parse_date(val.val) IN
         IF d.ok THEN Fields(TRUE, st.rec, Some(d.val), st.time)
         ELSE Fields(FALSE, st.rec, st.date, st.time)
    ELSE IF field_name = N_TIME_ON
    THEN LET t == parse_time(val.val) IN
         IF t.ok THEN Fields(TRUE, st.rec, st.date, Some(t.val))
         ELSE Fields(FALSE, st.rec, st.date, st.time)
    ELSE Fields(TRUE, insert_field(st.rec, from_adif_field(field_name), val.val), st.date, st.time)

import_field(st, field_name, value) == import_value(st, field_name, extract_value(value))

RECURSIVE import_fields(_, _)
import_fields(st, adif_record) ==
    IF adif_record = <<>> \/ ~st.ok THEN st
    ELSE import_fields(import_field(st, adif_record[1][1], adif_record[1][2]), Tail(adif_record))

\* The body of import_adif's outer loop up to the insert: the LogRecord built
\* from one ADIF record, or the error that ends the import.
\* The end of the field loop, in state st: the match on date and time.
finish_record(st) ==
    IF ~st.ok THEN [ok |-> FALSE, rec |-> <<>>]
    ELSE IF st.date # None
    THEN (IF st.time # None
          THEN [ok |-> TRUE, rec |-> insert_timestamp(st.rec, st.date[1], st.time[1])]
          ELSE [ok |-> TRUE, rec |-> st.rec])
    ELSE [ok |-> FALSE, rec |-> <<>>]

build_record(adif_record) ==
    finish_record(import_fields(Fields(TRUE, LogRecord_new, None, None), adif_record))

\* Log::import_adif: the loop over adif.body from record number k (0-based);
\* fault is the write that fails in the insert of record number at.
RECURSIVE import_adif_from(_, _, _, _, _)
\* After the insert of record number k, whose result is i.
import_adif_inserted(i, body, k, fault, at) ==
    IF i.res # "ok" THEN Ret(i.res, i.db, k) ELSE import_adif_from(i.db, body, k + 1, fault, at)

\* After record number k has been built, as b.
import_adif_built(db, b, body, k, fault, at) ==
    IF ~b.ok THEN Ret("err", db, k)
    ELSE import_adif_inserted(insert_record(db, b.rec, IF k = at THEN fault ELSE "none"),
                              body, k, fault, at)

import_adif_from(db, body, k, fault, at) ==
    IF k >= Len(body) THEN Ret("ok", db, k)
    ELSE import_adif_built(db, build_record(body[k + 1]), body, k, fault, at)

import_adif(db, adif, fault, at) == import_adif_from(db, adif.body, 0, fault, at)


\* ------------------------------------------------------------ texts of the inputs

B_W1AW == <<87, 49, 65, 87>>
B_K1ABC == <<75, 49, 65, 66, 67>>
B_test == <<116, 101, 115, 116>>
B_N0CALL == <<78, 48, 67, 65, 76, 76>>
B_AA00 == <<65, 65, 48, 48>>
B_APP == <<65, 80, 80>>
B_hello == <<104, 101, 108, 108, 111>>
B_aa00AA == <<97, 97, 48, 48, 65, 65>>
B_AA0 == <<65, 65, 48>>
B_20250728 == <<50, 48, 50, 53, 48, 55, 50, 56>>
B_20251328 == <<50, 48, 50, 53, 49, 51, 50, 56>>
B_024813 == <<48, 50, 52, 56, 49, 51>>
N_MY_CALL == <<77, 89, 95, 67, 65, 76, 76>>

\* ------------------------------------------------------------ inputs

\* Headers given to new_init.
Headers ==
    {LogHeader_new(B_W1AW, B_test), LogHeader_new(B_K1ABC, <<>>)}

\* Records given to insert_record and modify_record: the record of
\* tests::test_db, and one with an Other field.
R_TEST ==
    insert_timestamp(
        insert_field(insert_field(LogRecord_new, Unit("WorkedCall"), B_N0CALL),
                     Unit("GridSquare"), B_AA00),
        <<2025, 7, 28>>, <<2, 48, 13>>)
R_OTHER == insert_field(LogRecord_new, Other(B_APP), B_hello)

Records == {R_TEST, R_OTHER}

\* ADIF records given to import.
A_GOOD ==
    <<<<N_CALL, Str(B_N0CALL)>>, <<N_GRIDSQUARE, Str(B_AA00)>>,
      <<N_QSO_DATE, Str(B_20250728)>>, <<N_TIME_ON, Str(B_024813)>>>>
A_DATE_ONLY == <<<<N_CALL, Str(B_W1AW)>>, <<N_QSO_DATE, Str(B_20250728)>>>>
A_TIME_ONLY == <<<<N_CALL, Str(B_W1AW)>>, <<N_TIME_ON, Str(B_024813)>>>>
A_NEITHER == <<<<N_CALL, Str(B_W1AW)>>>>
A_BAD_GRID ==
    <<<<N_GRIDSQUARE, Str(B_AA0)>>, <<N_QSO_DATE, Str(B_20250728)>>,
      <<N_TIME_ON, Str(B_024813)>>>>
A_BAD_DATE == <<<<N_QSO_DATE, Str(B_20251328)>>, <<N_TIME_ON, Str(B_024813)>>>>
A_BOOL ==
    <<<<N_QSO_DATE, Str(B_20250728)>>, <<N_TIME_ON, Str(B_024813)>>, <<N_MY_CALL, Bool>>>>

\* The three shapes of date and time that reach the end of the field loop, and
\* the records that fail inside it.
DateTimeShapes == {A_GOOD, A_DATE_ONLY, A_TIME_ONLY}
FailingRecords == {A_NEITHER, A_BAD_GRID, A_BAD_DATE, A_BOOL}

SeqsUpTo(S, n) == UNION {[1..m -> S] : m \in 0..n}

\* The bodies of at most MaxFileLen records: every sequence of the date and
\* time shapes, and every shorter one followed by a failing record.
AdifBodies ==
    SeqsUpTo(DateTimeShapes, MaxFileLen)
    \cup {Append(p, e) : p \in SeqsUpTo(DateTimeShapes, MaxFileLen - 1), e \in FailingRecords}

\* The files handed to import (its header is not read).
AdifFiles == {[header |-> <<>>, body |-> body] : body \in AdifBodies}

Faults == {"none", "record", "index"}

\* Stores the program is handed at start: an empty one, and stores it did not
\* create in this run.
ForeignNoMagic == db_insert(EmptyDb, B_APP, B_hello)
ForeignBadMagic == db_insert(EmptyDb, KEY_MAGIC, B_test)

\* A veelog store written with lower-case magic whose slot 0 does not decode
\* (its entry names variant 99).
OldCorrupt ==
    db_insert(db_insert(db_insert(db_insert(EmptyDb,
        KEY_MAGIC, to_ascii_lowercase(VEELOG_MAGIC)),
        KEY_HEADER, encode_header(LogHeader_new(B_W1AW, B_test))),
        KEY_INDEX, usize_to_le_bytes(1)),
        usize_to_le_bytes(0), <<1, 99, 0>>)

\* A veelog store whose slot 0 is missing below INDEX = 2.
OldGap ==
    db_insert(db_insert(db_insert(db_insert(EmptyDb,
        KEY_MAGIC, VEELOG_MAGIC),
        KEY_HEADER, encode_header(LogHeader_new(B_W1AW, B_test))),
        KEY_INDEX, usize_to_le_bytes(2)),
        usize_to_le_bytes(1), encode_record(R_OTHER))

InitialStores == {EmptyDb, ForeignNoMagic, ForeignBadMagic, OldCorrupt, OldGap}

\* ------------------------------------------------------------ the program

\* No call is in progress: the caller has taken the result of the last one.
Idle == [op |-> "idle", arg |-> <<>>, res |-> "ok", out |-> <<>>]

Call(op, arg, r) == [op |-> op, arg |-> arg, res |-> r.res, out |-> r.out]

\* A panic unwinds through the caller and drops the Log.
LogAfter(r) == IF r.res = "panic" THEN "none" ELSE "open"

\* The index counter when it can be read, else the value given (no call is
\* held back by a counter that cannot be read).
IndexOr(db, other) == IF get_idx(db).res = "ok" THEN get_idx(db).out ELSE other

Init ==
    /\ store \in InitialStores
    /\ log = "none"
    /\ last = Idle
    /\ hist = <<>>
    /\ fresh = FALSE
    /\ header0 = None
    /\ writers = <<>>

New ==
    /\ log = "none" /\ last.op = "idle"
    /\ LET r == Log_new(store) IN
        /\ store' = r.db
        /\ log' = IF r.res = "ok" THEN "open" ELSE "none"
        /\ last' = Call("new", <<>>, r)
    /\ UNCHANGED <<hist, fresh, header0>>
    /\ UNCHANGED writers

NewInit ==
    /\ log = "none" /\ last.op = "idle"
    /\ \E header \in Headers, fault \in 0..4 :
        LET r == Log_new_init(store, header, fault) IN
        /\ store' = r.db
        /\ log' = IF r.res = "ok" THEN "open" ELSE "none"
        /\ last' = Call("new_init", [header |-> header, fault |-> fault], r)
        /\ fresh' = IF r.res = "ok" THEN TRUE ELSE fresh
        /\ hist' = IF r.res = "ok" THEN <<>> ELSE hist
        /\ header0' = IF r.res = "ok" THEN Some(header) ELSE header0
    /\ UNCHANGED writers

Close ==
    /\ log = "open" /\ last.op = "idle"
    /\ log' = "none"
    /\ last' = Idle
    /\ UNCHANGED <<store, hist, fresh, header0>>
    /\ UNCHANGED writers

InsertRecord ==
    /\ log = "open" /\ last.op = "idle"
    /\ IndexOr(store, 0) < MaxIdx
    /\ \E record \in Records, fault \in Faults :
        LET r == insert_record(store, record, fault) IN
        /\ store' = r.db
        /\ log' = LogAfter(r)
        /\ last' = Call("insert_record", [record |-> record, fault |-> fault], r)
        /\ fresh' = (fresh /\ (r.res = "ok" \/ r.db = store))
        /\ hist' = IF ~fresh' THEN <<>> ELSE IF r.res = "ok" THEN Append(hist, record) ELSE hist
    /\ UNCHANGED header0
    /\ UNCHANGED writers

ModifyRecord ==
    /\ log = "open" /\ last.op = "idle"
    /\ \E idx \in 0..MaxIdx, record \in Records, fails \in BOOLEAN :
        LET r == modify_record(store, idx, record, fails) IN
        /\ store' = r.db
        /\ log' = LogAfter(r)
        /\ last' = Call("modify_record", [idx |-> idx, record |-> record, fails |-> fails], r)
        /\ fresh' = (fresh /\ r.res # "ok")
        /\ hist' = IF fresh' THEN hist ELSE <<>>
    /\ UNCHANGED header0
    /\ UNCHANGED writers

GetRecord ==
    /\ log = "open" /\ last.op = "idle"
    /\ \E idx \in 0..MaxIdx :
        LET r == get_record(store, idx) IN
        /\ store' = r.db
        /\ log' = LogAfter(r)
        /\ last' = Call("get_record", idx, r)
    /\ UNCHANGED <<hist, fresh, header0>>
    /\ UNCHANGED writers

GetRecords ==
    /\ log = "open" /\ last.op = "idle"
    /\ LET r == get_records(store) IN
        /\ store' = r.db
        /\ log' = LogAfter(r)
        /\ last' = Call("get_records", <<>>, r)
    /\ UNCHANGED <<hist, fresh, header0>>
    /\ UNCHANGED writers

GetHeader ==
    /\ log = "open" /\ last.op = "idle"
    /\ LET r == get_header(store) IN
        /\ store' = r.db
        /\ log' = LogAfter(r)
        /\ last' = Call("get_header", <<>>, r)
    /\ UNCHANGED <<hist, fresh, header0>>
    /\ UNCHANGED writers

GetIdx ==
    /\ log = "open" /\ last.op = "idle"
    /\ LET r == get_idx(store) IN
        /\ store' = r.db
        /\ log' = LogAfter(r)
        /\ last' = Call("get_idx", <<>>, r)
    /\ UNCHANGED <<hist, fresh, header0>>
    /\ UNCHANGED writers

ImportAdif ==
    /\ log = "open" /\ last.op = "idle"
    /\ \E adif \in AdifFiles, fault \in Faults, at \in 0..(MaxFileLen - 1) :
        /\ fault = "none" => at = 0
        /\ at < Len(adif.body) \/ at = 0
        /\ LET r == import_adif(store, adif, fault, at) IN
            /\ IndexOr(r.db, 0) <= MaxIdx
            /\ store' = r.db
            /\ log' = LogAfter(r)
            /\ last' = Call("import_adif", [adif |-> adif, fault |-> fault, at |-> at], r)
            /\ fresh' = (fresh /\ r.db = store)
            /\ hist' = IF fresh' THEN hist ELSE <<>>
    /\ UNCHANGED header0
    /\ UNCHANGED writers

\* The caller takes the result; the next call is made after that.
Return ==
    /\ last.op # "idle"
    /\ last' = Idle
    /\ UNCHANGED <<store, log, hist, fresh, header0>>
    /\ UNCHANGED writers

Next ==
    \/ Return
    \/ New
    \/ NewInit
    \/ Close
    \/ InsertRecord
    \/ ModifyRecord
    \/ GetRecord
    \/ GetRecords
    \/ GetHeader
    \/ GetIdx
    \/ ImportAdif

Spec == Init /\ [][Next]_vars

\* ------------------------------------------------------------ properties

\* The slot of record number i, as the claims name it.
Slot(i) == usize_to_le_bytes(i)
ReservedKeys == {KEY_MAGIC, KEY_INFO, KEY_HEADER, KEY_INDEX}

\* The index counter of a store whose INDEX decodes.
IndexReadable(db) == KEY_INDEX \in DOMAIN db /\ Len(db[KEY_INDEX]) = Len(Slot(0))
IndexOf(db) == from_le(db[KEY_INDEX])

\* C1: from a store made by new_init, after N successful insert_record calls
\* and no other write, get_idx returns N and get_record(i) returns the record
\* of call number i + 1, for every i < N.
C1_InsertedRecordsRetrievable ==
    fresh =>
        /\ get_idx(store).res = "ok"
        /\ get_idx(store).out = Len(hist)
        /\ \A i \in 1..Len(hist) :
            /\ get_record(store, i - 1).res = "ok"
            /\ get_record(store, i - 1).out = Some(hist[i])

C1_Witness == fresh /\ Len(hist) = MaxIdx /\ hist[1] # hist[MaxIdx]

\* The value v is the signature up to the case of its ASCII letters.
IsSignature(v) ==
    /\ Len(v) = Len(VEELOG_MAGIC)
    /\ \A i \in 1..Len(v) :
        \/ v[i] = VEELOG_MAGIC[i]
        \/ v[i] >= 97 /\ v[i] <= 122 /\ v[i] - 32 = VEELOG_MAGIC[i]

C3_CreateOnNonEmptyFails ==
    [][last'.op = "new_init" /\ DOMAIN store # {} =>
        /\ last'.res = "err"
        /\ log' = "none"
        /\ store' = store]_vars

C3_Witness ==
    /\ last.op = "new_init" /\ last.res = "err"
    /\ header0 # None
    /\ ReservedKeys \subseteq DOMAIN store

\* The bincode bytes of a header of short strings: each string is its length
\* in one byte, then its bytes.
HeaderBytes(h) ==
    <<Len(h.version)>> \o h.version \o <<Len(h.op_call)>> \o h.op_call
    \o <<Len(h.comment)>> \o h.comment

\* C4: right after a successful new_init the store holds exactly MAGIC (the
\* signature), INFO, HEADER (the header's encoding) and INDEX (eight zero
\* bytes); get_idx returns 0, get_header the header given, get_records the
\* empty list, and Log::new on the store succeeds.
C4_CreatedStoreLayout ==
    (last.op = "new_init" /\ last.res = "ok") =>
        /\ DOMAIN store = ReservedKeys
        /\ store[KEY_MAGIC] = VEELOG_MAGIC
        /\ store[KEY_INFO] = INFO_TEXT
        /\ store[KEY_HEADER] = HeaderBytes(last.arg.header)
        /\ store[KEY_INDEX] = <<0, 0, 0, 0, 0, 0, 0, 0>>
        /\ get_idx(store).res = "ok" /\ get_idx(store).out = 0
        /\ get_header(store).res = "ok" /\ get_header(store).out = last.arg.header
        /\ get_records(store).res = "ok" /\ get_records(store).out = <<>>
        /\ Log_new(store).res = "ok"

C4_Witness ==
    /\ last.op = "new_init" /\ last.res = "ok"
    /\ last.arg.header.comment # <<>>

\* What the claims say of one ADIF record, read off its fields.
HasName(adif_record, name) == \E i \in 1..Len(adif_record) : adif_record[i][1] = name

MissingDateTime(adif_record) ==
    ~HasName(adif_record, N_QSO_DATE) \/ ~HasName(adif_record, N_TIME_ON)

BadValue(adif_record) == \E i \in 1..Len(adif_record) : adif_record[i][2].t # "Str"

BadGrid(adif_record) ==
    \E i \in 1..Len(adif_record) :
        /\ adif_record[i][1] = N_GRIDSQUARE
        /\ Len(adif_record[i][2].s) \notin {4, 6} \/ ~is_ascii(adif_record[i][2].s)

BadDateTime(adif_record) ==
    \E i \in 1..Len(adif_record) :
        \/ adif_record[i][1] = N_QSO_DATE /\ ~parse_date(adif_record[i][2].s).ok
        \/ adif_record[i][1] = N_TIME_ON /\ ~parse_time(adif_record[i][2].s).ok

RecordFails(adif_record) ==
    BadValue(adif_record) \/ BadGrid(adif_record) \/ BadDateTime(adif_record)
    \/ MissingDateTime(adif_record)

HasTimestamp(enc) ==
    decode_record(enc).ok /\ has_field(decode_record(enc).val, Unit("Timestamp"))

\* C5: import never stores a record without a Timestamp: a record with
\* QSO_DATE and no TIME_ON, with TIME_ON and no QSO_DATE, or with neither is
\* rejected with an error and the store is not changed for it.  Stated of every
\* import step: each slot it writes holds a record with a Timestamp, and a file
\* whose first record lacks the date or the time gets an error and leaves the
\* store as it was.
C5_ImportRejectsMissingDateTime ==
    [][last'.op = "import_adif" =>
        /\ \A key \in DOMAIN store' \ ReservedKeys :
            (key \notin DOMAIN store \/ store'[key] # store[key]) => HasTimestamp(store'[key])
        /\ (last'.arg.adif.body # <<>> /\ MissingDateTime(last'.arg.adif.body[1])) =>
            (last'.res = "err" /\ store' = store)]_vars

\* The number of records before the first one that fails, by the claim's list
\* of failures: in building the record, or in the store's insert.
FailsAt(body, fault, at, j) == RecordFails(body[j]) \/ (fault # "none" /\ at = j - 1)

RecordsBeforeFailure(body, fault, at) ==
    IF \E j \in 1..Len(body) : FailsAt(body, fault, at, j)
    THEN (CHOOSE j \in 1..Len(body) :
            FailsAt(body, fault, at, j) /\ \A m \in 1..(j - 1) : ~FailsAt(body, fault, at, m)) - 1
    ELSE Len(body)

\* C6: import takes the records in file order and stops at the first that
\* fails (extraction, grid square, date or time parsing, missing date or time,
\* store insert): with k records before it, exactly those k are inserted, in
\* order, at the k slots from the old INDEX on, INDEX advances by k, nothing
\* later is inserted and an error is returned; with no failure all records are
\* inserted and Ok is returned.
C6_ImportStopsAtFirstFailure ==
    [][(last'.op = "import_adif" /\ IndexReadable(store)) =>
        LET body == last'.arg.adif.body
            k == RecordsBeforeFailure(body, last'.arg.fault, last'.arg.at)
            first == IndexOf(store)
        IN  /\ IndexReadable(store') /\ IndexOf(store') = first + k
            /\ \A j \in 1..k :
                /\ Slot(first + j - 1) \in DOMAIN store'
                /\ store'[Slot(first + j - 1)] = encode_record(build_record(body[j]).rec)
            /\ \A key \in DOMAIN store' \ ({KEY_INDEX} \cup {Slot(first + j) : j \in 0..k}) :
                key \in DOMAIN store /\ store'[key] = store[key]
            /\ last'.res = IF k = Len(body) THEN "ok" ELSE "err"]_vars

\* The slots below n that hold bytes, and those whose bytes decode.
SlotPresent(db, i) == Slot(i) \in DOMAIN db
SlotDecodes(db, i) == SlotPresent(db, i) /\ decode_record(db[Slot(i)]).ok
DecodingSlots(db, n) == {i \in 0..(n - 1) : SlotDecodes(db, i)}
NthOf(S, j) == CHOOSE i \in S : Cardinality({m \in S : m < i}) = j - 1

\* The decoded records of the decoding slots below INDEX, by increasing index.
DecodedRecords(db) ==
    [j \in 1..Cardinality(DecodingSlots(db, IndexOf(db))) |->
        decode_record(db[Slot(NthOf(DecodingSlots(db, IndexOf(db)), j))]).val]

C8_IndexOnlyAdvancesOnInsert ==
    [][log = "open" =>
        IF IndexReadable(store)
        THEN /\ IndexReadable(store')
             /\ IndexOf(store') >= IndexOf(store)
             /\ IndexOf(store') - IndexOf(store) =
                    IF last'.op = "insert_record" /\ last'.res = "ok" THEN 1
                    ELSE IF last'.op = "import_adif" THEN last'.out
                    ELSE 0
             /\ \A i \in IndexOf(store)..(IndexOf(store') - 1) : SlotPresent(store', i)
        ELSE db_get(store', KEY_INDEX) = db_get(store, KEY_INDEX)]_vars

\* An import that failed at its second record after inserting the first.
C8_Witness ==
    /\ last.op = "import_adif" /\ last.res = "err" /\ last.out = 1
    /\ IndexReadable(store) /\ IndexOf(store) >= 1

\* C9: modify_record(idx, record), when the store takes the write, succeeds for
\* every idx, populated or not, below INDEX or not; then get_record(idx)
\* returns record and every other key is as before.  Written at idx >= INDEX
\* the record is not returned by get_records, and a successful insert_record
\* puts its record in slot INDEX whatever that slot held.
C9_ModifyRecordWritesOneSlot ==
    [][/\ (last'.op = "modify_record" /\ ~last'.arg.fails) =>
            /\ last'.res = "ok"
            /\ DOMAIN store' = DOMAIN store \cup {Slot(last'.arg.idx)}
            /\ \A key \in DOMAIN store \ {Slot(last'.arg.idx)} : store'[key] = store[key]
            /\ get_record(store', last'.arg.idx).res = "ok"
            /\ get_record(store', last'.arg.idx).out = Some(last'.arg.record)
            /\ (IndexReadable(store) /\ last'.arg.idx >= IndexOf(store)) =>
                /\ get_records(store').res = get_records(store).res
                /\ get_records(store').out = get_records(store).out
       /\ (last'.op = "insert_record" /\ last'.res = "ok") =>
            /\ get_record(store', IndexOf(store)).res = "ok"
            /\ get_record(store', IndexOf(store)).out = Some(last'.arg.record)]_vars

\* A write above INDEX that the scan does not return.
C9_Witness ==
    /\ last.op = "modify_record" /\ last.res = "ok"
    /\ IndexReadable(store) /\ last.arg.idx > IndexOf(store)
    /\ get_records(store).res = "ok" /\ Len(get_records(store).out) = IndexOf(store)

\* C10: once new_init has succeeded, MAGIC, INFO and HEADER keep their values
\* through every call: no record key (eight bytes) is a reserved key,
\* get_header returns the header given at creation and Log::new succeeds.
C10_ReservedKeysKeepValues ==
    header0 # None =>
        /\ ReservedKeys \subseteq DOMAIN store
        /\ store[KEY_MAGIC] = VEELOG_MAGIC
        /\ store[KEY_INFO] = INFO_TEXT
        /\ store[KEY_HEADER] = HeaderBytes(header0[1])
        /\ get_header(store).res = "ok" /\ get_header(store).out = header0[1]
        /\ Log_new(store).res = "ok"
        /\ \A idx \in 0..MaxIdx : Slot(idx) \notin ReservedKeys

\* A store reopened after inserts up to the bound and a write above INDEX.
C10_Witness ==
    /\ header0 # None
    /\ last.op = "new" /\ last.res = "ok"
    /\ IndexReadable(store) /\ IndexOf(store) = MaxIdx
    /\ SlotPresent(store, MaxIdx)

\* ------------------------------------------------------------ text

\* bs[a..b], empty when b < a.
sub(bs, a, b) == [n \in 1..(b - a + 1) |-> bs[a + n - 1]]

starts_with_at(bs, p, pat) ==
    /\ p + Len(pat) - 1 <= Len(bs)
    /\ \A n \in 1..Len(pat) : bs[p + n - 1] = pat[n]

\* The least position of a set of positions, or 0 when there is none.
first_of(S) == IF S = {} THEN 0 ELSE CHOOSE q \in S : \A r \in S : q <= r

\* The position of the first occurrence of pat in bs at or after p, or 0.
find_from(bs, p, pat) ==
    first_of({q \in p..(Len(bs) - Len(pat) + 1) : starts_with_at(bs, q, pat)})

\* str::replace: the occurrences of from, left to right and not overlapping.
RECURSIVE replace_at(_, _, _, _)
replace_at(bs, from, to, at) ==
    IF at = 0 THEN bs
    ELSE sub(bs, 1, at - 1) \o to
         \o replace_at(sub(bs, at + Len(from), Len(bs)), from, to,
                       find_from(sub(bs, at + Len(from), Len(bs)), 1, from))

replace(bs, from, to) == replace_at(bs, from, to, find_from(bs, 1, from))

\* str::split: the pieces between the occurrences of sep (one piece at least).
RECURSIVE split_at(_, _, _)
split_at(bs, sep, at) ==
    IF at = 0 THEN <<bs>>
    ELSE <<sub(bs, 1, at - 1)>>
         \o split_at(sub(bs, at + Len(sep), Len(bs)), sep,
                     find_from(sub(bs, at + Len(sep), Len(bs)), 1, sep))

split(bs, sep) == split_at(bs, sep, find_from(bs, 1, sep))

drop_last_if_empty(pieces) ==
    IF pieces[Len(pieces)] = <<>> THEN sub(pieces, 1, Len(pieces) - 1) ELSE pieces

\* str::split_terminator: as split, without a trailing empty piece.
split_terminator(bs, sep) == drop_last_if_empty(split(bs, sep))

\* ASCII white space: tab, line feed, vertical tab, form feed, return, space.
WhiteSpace == {9, 10, 11, 12, 13, 32}

RECURSIVE trim_end(_)
trim_end(bs) ==
    IF bs # <<>> /\ bs[Len(bs)] \in WhiteSpace THEN trim_end(sub(bs, 1, Len(bs) - 1))
    ELSE bs

\* usize to decimal text (Display).
RECURSIVE usize_to_string(_)
usize_to_string(n) ==
    IF n < 10 THEN <<48 + n>> ELSE usize_to_string(n \div 10) \o <<48 + (n % 10)>>

\* s1 \o sep \o s2 ... (join).
RECURSIVE join(_, _)
join(strs, sep) ==
    IF strs = <<>> THEN <<>>
    ELSE IF Len(strs) = 1 THEN strs[1]
    ELSE strs[1] \o sep \o join(Tail(strs), sep)

\* ------------------------------------------------------------ ADIF text

T_EOH == <<60, 69, 79, 72, 62>>
T_EOR == <<60, 69, 79, 82, 62>>
T_eoh == <<60, 101, 111, 104, 62>>
T_eor == <<60, 101, 111, 114, 62>>
LF == <<10>>

\* "Exported from veelog on 2025-07-28 02:48:13\n": the clock gives digits
\* only, whatever the time.
T_BANNER ==
    <<69, 120, 112, 111, 114, 116, 101, 100, 32, 102, 114, 111, 109, 32,
      118, 101, 101, 108, 111, 103, 32, 111, 110, 32,
      50, 48, 50, 53, 45, 48, 55, 45, 50, 56, 32, 48, 50, 58, 52, 56, 58, 49, 51, 10>>

space_to_underscore(bs) == [n \in 1..Len(bs) |-> IF bs[n] = 32 THEN 95 ELSE bs[n]]

\* ADIFType::serialize: <NAME:len>value for Str; Bool and Num are todo!().
ADIFType_serialize(value, field_name) ==
    IF value.t # "Str" THEN [res |-> "panic", out |-> <<>>]
    ELSE [res |-> "ok",
          out |-> <<60>> \o space_to_underscore(to_ascii_uppercase(field_name))
                  \o <<58>> \o usize_to_string(Len(value.s)) \o <<62>> \o value.s]

fields_serialize(fields) ==
    [n \in 1..Len(fields) |-> ADIFType_serialize(fields[n][2], fields[n][1])]

all_ok(results) == \A n \in 1..Len(results) : results[n].res = "ok"
outs(results) == [n \in 1..Len(results) |-> results[n].out]

ADIFHeader_serialize(header) ==
    IF ~all_ok(fields_serialize(header)) THEN [res |-> "panic", out |-> <<>>]
    ELSE [res |-> "ok",
          out |-> T_BANNER \o join(outs(fields_serialize(header)), LF) \o LF \o T_EOH]

ADIFRecord_serialize(record) ==
    IF ~all_ok(fields_serialize(record)) THEN [res |-> "panic", out |-> <<>>]
    ELSE [res |-> "ok", out |-> join(outs(fields_serialize(record)), <<>>) \o T_EOR]

records_serialize(body) == [n \in 1..Len(body) |-> ADIFRecord_serialize(body[n])]

ADIFFile_serialize(file) ==
    IF ADIFHeader_serialize(file.header).res # "ok" \/ ~all_ok(records_serialize(file.body))
    THEN [res |-> "panic", out |-> <<>>]
    ELSE [res |-> "ok",
          out |-> ADIFHeader_serialize(file.header).out \o LF
                  \o join(outs(records_serialize(file.body)), LF)]

\* ------------------------------------------------------------ ADIF parser

\* The classes of <([a-zA-Z|_]+):(\d+)(?::([a-z]))?>([^<\n]+).  The text given
\* to the parser is a sequence of characters: ASCII, and the Arabic-Indic
\* digits U+0660..U+0669, which \d matches as it matches every decimal digit
\* of Unicode.
AsciiDigits == 48..57
ArabicIndicDigits == 1632..1641
KeyChars == (65..90) \cup (97..122) \cup {124, 95}
DigitChars == AsciiDigits \cup ArabicIndicDigits
TypeChars == 97..122
ValueChars == ((0..127) \cup ArabicIndicDigits) \ {60, 10}

\* The position after the longest run of characters of class S from p on.
run_end(bs, p, S) ==
    first_of({q \in p..(Len(bs) + 1) : q > Len(bs) \/ bs[q] \notin S})

NoMatch == [ok |-> FALSE]

RECURSIVE strip_zeros(_)
strip_zeros(ds) == IF Len(ds) > 1 /\ ds[1] = 48 THEN strip_zeros(Tail(ds)) ELSE ds

\* usize::MAX in decimal: 18446744073709551615.
USIZE_MAX_TEXT == <<49, 56, 52, 52, 54, 55, 52, 52, 48, 55, 51, 55, 48, 57, 53, 53, 49, 54, 49, 53>>

RECURSIVE text_less_or_equal(_, _)
text_less_or_equal(a, b) ==
    IF a = <<>> THEN TRUE
    ELSE IF a[1] # b[1] THEN a[1] < b[1]
    ELSE text_less_or_equal(Tail(a), Tail(b))

\* cap[2].parse::<usize>(): ASCII digits that fit a usize, or the parse fails.
\* The number is kept as its decimal text without leading zeros.
parse_usize(ds) ==
    IF /\ \A n \in 1..Len(ds) : ds[n] \in AsciiDigits
       /\ \/ Len(strip_zeros(ds)) < Len(USIZE_MAX_TEXT)
          \/ (Len(strip_zeros(ds)) = Len(USIZE_MAX_TEXT)
              /\ text_less_or_equal(strip_zeros(ds), USIZE_MAX_TEXT))
    THEN [ok |-> TRUE, val |-> strip_zeros(ds)]
    ELSE [ok |-> FALSE, val |-> <<>>]

\* A match whose key is bs[a..b-1], length bs[b+1..c-1], value bs[v..e-1].
token_made(bs, a, b, c, ty, v, e) ==
    IF e = v THEN NoMatch
    ELSE [ok |-> TRUE, from |-> a - 1, to |-> e,
          key |-> to_ascii_uppercase(sub(bs, a, b - 1)),
          len |-> parse_usize(sub(bs, b + 1, c - 1)),
          ty |-> ty,
          val |-> trim_end(sub(bs, v, e - 1))]

token_len(bs, a, b, c) ==
    IF c = b + 1 THEN NoMatch
    ELSE IF c <= Len(bs) /\ bs[c] = 62
    THEN token_made(bs, a, b, c, None, c + 1, run_end(bs, c + 1, ValueChars))
    ELSE IF c + 2 <= Len(bs) /\ bs[c] = 58 /\ bs[c + 1] \in TypeChars /\ bs[c + 2] = 62
    THEN token_made(bs, a, b, c, Some(to_ascii_uppercase_byte(bs[c + 1])), c + 3,
                    run_end(bs, c + 3, ValueChars))
    ELSE NoMatch

token_key(bs, a, b) ==
    IF b = a \/ b > Len(bs) \/ bs[b] # 58 THEN NoMatch
    ELSE token_len(bs, a, b, run_end(bs, b + 1, DigitChars))

\* The match of the pattern that starts at p, if there is one.
token_at(bs, p) ==
    IF p > Len(bs) \/ bs[p] # 60 THEN NoMatch
    ELSE token_key(bs, p + 1, run_end(bs, p + 1, KeyChars))

\* captures_iter: the matches from left to right, each after the one before.
RECURSIVE captures_from(_, _)
captures_step(bs, p, m) ==
    IF m.ok THEN <<m>> \o captures_from(bs, m.to) ELSE captures_from(bs, p + 1)
captures_at(bs, p) ==
    IF p = 0 THEN <<>> ELSE captures_step(bs, p, token_at(bs, p))
captures_from(bs, p) == captures_at(bs, find_from(bs, p, <<60>>))

Token(m) == [key |-> m.key, len |-> m.len.val, ty |-> m.ty, val |-> m.val]

\* parse_tokens: one Token per match; a length that does not parse panics
\* (expect "len in token not integer").
tokens_of(caps) ==
    IF \E n \in 1..Len(caps) : ~caps[n].len.ok THEN [res |-> "panic", out |-> <<>>]
    ELSE [res |-> "ok", out |-> [n \in 1..Len(caps) |-> Token(caps[n])]]

parse_tokens(data) == tokens_of(captures_from(data, 1))

\* build_token_list: every token becomes (key, Str(val)), whatever its type.
build_token_list(tokens) == [n \in 1..Len(tokens) |-> <<tokens[n].key, Str(tokens[n].val)>>]

parsed_records(pieces) == [n \in 1..Len(pieces) |-> parse_tokens(pieces[n])]

adif_file_of(header, records) ==
    IF header.res # "ok" \/ ~all_ok(records) THEN [res |-> "panic", out |-> <<>>]
    ELSE [res |-> "ok",
          out |-> [header |-> build_token_list(header.out),
                   body |-> [n \in 1..Len(records) |-> build_token_list(records[n].out)]]]

parse_adif_parts(parts) ==
    IF Len(parts) # 2 THEN [res |-> "panic", out |-> <<>>]
    ELSE adif_file_of(parse_tokens(parts[1]),
                      parsed_records(split_terminator(parts[2], T_EOR)))

\* parse_adif: <eoh> and <eor> in upper case, the header before <EOH>, one
\* record per piece ended by <EOR>; no <EOH> or more than one is todo!().
parse_adif(data) ==
    parse_adif_parts(split(replace(replace(data, T_eoh, T_EOH), T_eor, T_EOR), T_EOH))

\* ------------------------------------------------------------ functions called on their own

\* The functions that take no store, each called from the idle state on the
\* inputs of a bounded set; the store is absent and stays so.
NoStore ==
    /\ store = EmptyDb /\ log = "none" /\ hist = <<>> /\ fresh = FALSE
    /\ header0 = None /\ writers = <<>>

PureInit == NoStore /\ last = Idle

\* The keys of two records i < j, as get_record and modify_record compute them.
RecordKeys ==
    /\ last.op = "idle"
    /\ \E i \in 0..MaxKeyIdx, j \in 0..MaxKeyIdx :
        /\ i < j
        /\ last' = [op |-> "record_keys", arg |-> <<i, j>>, res |-> "ok",
                    out |-> <<usize_to_le_bytes(i), usize_to_le_bytes(j)>>]
    /\ UNCHANGED <<store, log, hist, fresh, header0, writers>>

\* Field names and values of the files that are serialized and parsed back.
N_ADIF_VER == <<65, 68, 73, 70, 95, 86, 69, 82>>
N_call == to_ascii_lowercase(N_CALL)
N_APP1 == <<65, 80, 80, 49>>
B_311 == <<51, 46, 49, 46, 49>>
B_W1AW_space == B_W1AW \o <<32>>
B_a_lt_b == <<97, 60, 98>>

\* Records of Str fields: none, one, two; a lower-case name, a name with a
\* digit; an empty value, a value that ends in a space, a value with a '<'.
RoundTripRecords ==
    {<<>>,
     <<<<N_CALL, Str(B_N0CALL)>>>>,
     <<<<N_CALL, Str(B_N0CALL)>>, <<N_GRIDSQUARE, Str(B_AA00)>>>>,
     <<<<N_call, Str(B_N0CALL)>>>>,
     <<<<N_APP1, Str(B_hello)>>>>,
     <<<<N_CALL, Str(<<>>)>>>>,
     <<<<N_CALL, Str(B_W1AW_space)>>>>,
     <<<<N_COMMENT, Str(B_a_lt_b)>>>>}

RoundTripHeaders ==
    {<<>>, <<<<N_ADIF_VER, Str(B_311)>>>>, <<<<N_ADIF_VER, Str(<<>>)>>>>}

RoundTripFiles ==
    {[header |-> h, body |-> b] :
        h \in RoundTripHeaders, b \in SeqsUpTo(RoundTripRecords, MaxRoundTripLen)}

parse_serialized(serialized) ==
    IF serialized.res # "ok" THEN serialized ELSE parse_adif(serialized.out)

\* parse_adif(file.serialize().unwrap()).
ParseSerialized ==
    /\ last.op = "idle"
    /\ \E file \in RoundTripFiles :
        last' = Call("parse_serialized", file, parse_serialized(ADIFFile_serialize(file)))
    /\ UNCHANGED <<store, log, hist, fresh, header0, writers>>

\* Names and fields of the records that are imported on their own: names of
\* the table, names import skips by prefix or by name, names that are near
\* them, and names the table does not have.
N_QSL_RCVD == <<81, 83, 76, 95, 82, 67, 86, 68>>
N_my_call == to_ascii_lowercase(N_MY_CALL)
N_MY == <<77, 89>>
B_0070 == <<48, 48, 55, 46, 48>>

ImportNames ==
    {N_CALL, N_RST_SENT, N_STATE, N_FREQ, N_MY_CALL, PREFIX_SIG, N_QSL_RCVD,
     N_my_call, N_MY, B_APP,
     N_STATION_CALLSIGN, N_OPERATOR, N_BAND, N_TIME_OFF, N_QSO_DATE_OFF, N_TX_PWR,
     N_SUBMODE}

ImportFields ==
    {<<name, Str(B_hello)>> : name \in ImportNames}
    \cup {<<N_CALL, Str(B_test)>>, <<B_APP, Str(B_test)>>, <<N_FREQ, Str(B_0070)>>}

DateAndTime == <<<<N_QSO_DATE, Str(B_20250728)>>, <<N_TIME_ON, Str(B_024813)>>>>

\* A store as new_init leaves it.
CreatedStore == Log_new_init(EmptyDb, LogHeader_new(B_W1AW, B_test), 0).db

import_one(adif_record) ==
    import_adif(CreatedStore, [header |-> <<>>, body |-> <<adif_record>>], "none", 0)

\* import_adif of a file of one record into a new store, and the record that
\* get_record(0) then returns.
ImportOneRecord ==
    /\ last.op = "idle"
    /\ \E fields \in SeqsUpTo(ImportFields, MaxImportFields) :
        last' = [op |-> "import_one", arg |-> fields \o DateAndTime,
                 res |-> import_one(fields \o DateAndTime).res,
                 out |-> get_record(import_one(fields \o DateAndTime).db, 0).out]
    /\ UNCHANGED <<store, log, hist, fresh, header0, writers>>

\* The texts of at most n characters of a set; a character is its UTF-8 bytes.
RECURSIVE TextsOf(_, _)
TextsOf(Chars, n) ==
    IF n = 0 THEN {<<>>}
    ELSE TextsOf(Chars, n - 1) \cup {t \o c : t \in TextsOf(Chars, n - 1), c \in Chars}

\* a, A, 0 and e-acute (two bytes).
GridChars == {<<97>>, <<65>>, <<48>>, <<195, 169>>}
Grids == TextsOf(GridChars, MaxGridLen)
ImportedGrids == TextsOf({<<97>>, <<195, 169>>}, MaxGridLen)

ResultOf(r) == IF r.ok THEN "ok" ELSE "err"

\* prettyvalidate_gridsquare(grid), and the function applied to its own result.
PrettyvalidateGridsquare ==
    /\ last.op = "idle"
    /\ \E grid \in Grids :
        last' = [op |-> "prettyvalidate_gridsquare", arg |-> grid,
                 res |-> ResultOf(prettyvalidate_gridsquare(grid)),
                 out |-> [once |-> prettyvalidate_gridsquare(grid),
                          twice |-> IF prettyvalidate_gridsquare(grid).ok
                                    THEN prettyvalidate_gridsquare(prettyvalidate_gridsquare(grid).val)
                                    ELSE prettyvalidate_gridsquare(grid)]]
    /\ UNCHANGED <<store, log, hist, fresh, header0, writers>>

\* pretty_gridsquare(grid).
PrettyGridsquare ==
    /\ last.op = "idle"
    /\ \E grid \in Grids :
        last' = [op |-> "pretty_gridsquare", arg |-> grid,
                 res |-> ResultOf(pretty_gridsquare(grid)),
                 out |-> [once |-> pretty_gridsquare(grid)]]
    /\ UNCHANGED <<store, log, hist, fresh, header0, writers>>

gridsquare_record(grid) ==
    <<<<N_CALL, Str(B_N0CALL)>>, <<N_GRIDSQUARE, Str(grid)>>>> \o DateAndTime

\* import_adif of one record with GRIDSQUARE=grid into a new store; the store
\* it leaves and the record get_record(0) returns.
ImportGridsquare ==
    /\ last.op = "idle"
    /\ \E grid \in ImportedGrids :
        last' = [op |-> "import_gridsquare", arg |-> grid,
                 res |-> import_one(gridsquare_record(grid)).res,
                 out |-> [db |-> import_one(gridsquare_record(grid)).db,
                          record |-> get_record(import_one(gridsquare_record(grid)).db, 0).out]]
    /\ UNCHANGED <<store, log, hist, fresh, header0, writers>>

\* Tags given to the tokenizer: <CALL:6>N0CALL, <MODE:2:s>CW followed by a
\* space, and <CALL:len>N0CALL with len x, nothing, an Arabic-Indic 6, and
\* 2 followed by twenty zeros.
G_CALL_6 == <<60, 67, 65, 76, 76, 58, 54, 62>> \o B_N0CALL
G_MODE_2_s == <<60, 77, 79, 68, 69, 58, 50, 58, 115, 62, 67, 87, 32>>
G_CALL_x == <<60, 67, 65, 76, 76, 58, 120, 62>> \o B_N0CALL
G_CALL_none == <<60, 67, 65, 76, 76, 58, 62>> \o B_N0CALL
G_CALL_arabic == <<60, 67, 65, 76, 76, 58, 1638, 62>> \o B_N0CALL
G_CALL_huge ==
    <<60, 67, 65, 76, 76, 58, 50>> \o [n \in 1..20 |-> 48] \o <<62>> \o B_N0CALL

Tags == {G_CALL_6, G_MODE_2_s, G_CALL_x, G_CALL_none, G_CALL_arabic, G_CALL_huge}

\* parse_tokens on the tags of a sequence, one after the other.
ParseTokens ==
    /\ last.op = "idle"
    /\ \E tags \in SeqsUpTo(Tags, MaxTags) :
        last' = Call("parse_tokens", tags, parse_tokens(join(tags, <<>>)))
    /\ UNCHANGED <<store, log, hist, fresh, header0, writers>>

PureNext ==
    \/ Return
    \/ ParseTokens
    \/ RecordKeys
    \/ ParseSerialized
    \/ ImportOneRecord
    \/ PrettyvalidateGridsquare
    \/ PrettyGridsquare
    \/ ImportGridsquare

PureSpec == PureInit /\ [][PureNext]_vars

\* The store's key order: byte strings compared lexicographically.
RECURSIVE lex_less(_, _)
lex_less(a, b) ==
    IF b = <<>> THEN FALSE
    ELSE IF a = <<>> THEN TRUE
    ELSE IF a[1] # b[1] THEN a[1] < b[1]
    ELSE lex_less(Tail(a), Tail(b))

\* Numbers compared by their base-256 digits, least significant first.
RECURSIVE low_byte_first_less(_, _)
low_byte_first_less(i, j) ==
    IF i = 0 /\ j = 0 THEN FALSE
    ELSE IF i % 256 # j % 256 THEN i % 256 < j % 256
    ELSE low_byte_first_less(i \div 256, j \div 256)

\* C11, as stated: for record indices i < j the key of i sorts strictly before
\* the key of j in the store's lexicographic byte order.
C11_KeyOrderIsIndexOrder ==
    last.op = "record_keys" => lex_less(last.out[1], last.out[2])

\* C11, amended: the keys of two different indices differ, and they sort by
\* the index's base-256 digits taken least significant first; so the key of i
\* sorts before the key of j for all i < j < 256, and no longer from 256 on.
C11_KeyOrderIsLowByteFirst ==
    last.op = "record_keys" =>
        /\ last.out[1] # last.out[2]
        /\ lex_less(last.out[1], last.out[2])
            <=> low_byte_first_less(last.arg[1], last.arg[2])
        /\ last.arg[2] < 256 => lex_less(last.out[1], last.out[2])
        /\ (last.arg[1] < 256 /\ last.arg[2] >= 256 /\ last.arg[2] % 256 < last.arg[1])
            => lex_less(last.out[2], last.out[1])

\* The key of record 256 sorts before the key of record 1.
C11_Witness ==
    /\ last.op = "record_keys" /\ last.arg = <<1, 256>>
    /\ lex_less(last.out[2], last.out[1])

\* C12: for a file of Str fields (any number of records and of fields, any
\* name and value text) parse_adif(file.serialize()) has the header and the
\* records of the file: the same (name, value) pairs in the same order, and as
\* many records.
C12_ParseSerializeRoundTrip ==
    last.op = "parse_serialized" =>
        /\ last.res = "ok"
        /\ last.out.header = last.arg.header
        /\ Len(last.out.body) = Len(last.arg.body)
        /\ \A n \in 1..Len(last.arg.body) : last.out.body[n] = last.arg.body[n]

\* What the claims say of a field's name.
HasPrefix(name, prefix) == starts_with_at(name, 1, prefix)

IsDropped(name) ==
    \/ HasPrefix(name, PREFIX_MY) \/ HasPrefix(name, PREFIX_SIG) \/ HasPrefix(name, PREFIX_QSL)
    \/ name \in {N_STATION_CALLSIGN, N_OPERATOR, N_BAND, N_TIME_OFF, N_QSO_DATE_OFF,
                 N_TX_PWR, N_SUBMODE}

IsVerbatim(name) == ~IsDropped(name) /\ name \notin {N_FREQ, N_GRIDSQUARE, N_QSO_DATE, N_TIME_ON}

\* The fields of an ADIF record that the stored record is made of.
KeptTypes(adif_record) ==
    {from_adif_field(adif_record[n][1]) :
        n \in {k \in 1..Len(adif_record) :
                ~IsDropped(adif_record[k][1])
                /\ adif_record[k][1] \notin {N_QSO_DATE, N_TIME_ON}}}
    \cup {Unit("Timestamp")}

\* No dropped field is in the stored record: its name is no Other(name), and
\* every entry of the record is the Timestamp or comes from a kept field.
NoDroppedField(adif_record, rec) ==
    /\ \A n \in 1..Len(adif_record) :
        IsDropped(adif_record[n][1]) => ~has_field(rec, Other(adif_record[n][1]))
    /\ \A e \in 1..Len(rec) : rec[e][1] \in KeptTypes(adif_record)

\* C13, as stated: in a successfully imported record no field with a name
\* that starts with MY_, SIG or QSL or is one of the seven excluded names is
\* stored; every other field but FREQ, GRIDSQUARE, QSO_DATE and TIME_ON is
\* stored with its value unchanged under the variant of the name table, or
\* under Other(name).
C13_ImportFieldPolicy ==
    (last.op = "import_one" /\ last.res = "ok") =>
        /\ last.out # None
        /\ NoDroppedField(last.arg, last.out[1])
        /\ \A n \in 1..Len(last.arg) :
            IsVerbatim(last.arg[n][1]) =>
                get_field(last.out[1], from_adif_field(last.arg[n][1])) = Some(last.arg[n][2].s)

\* C13, amended: as stated, for the last field of each name; an earlier field
\* of the same name is replaced by the later one.
IsLastOfName(adif_record, n) ==
    \A k \in (n + 1)..Len(adif_record) : adif_record[k][1] # adif_record[n][1]

C13_ImportFieldPolicyLastWins ==
    (last.op = "import_one" /\ last.res = "ok") =>
        /\ last.out # None
        /\ NoDroppedField(last.arg, last.out[1])
        /\ \A n \in 1..Len(last.arg) :
            (IsVerbatim(last.arg[n][1]) /\ IsLastOfName(last.arg, n)) =>
                get_field(last.out[1], from_adif_field(last.arg[n][1])) = Some(last.arg[n][2].s)

\* A record with two CALL fields, stored with the value of the second.
C13_Witness ==
    /\ last.op = "import_one" /\ last.res = "ok"
    /\ last.arg[1] = <<N_CALL, Str(B_hello)>> /\ last.arg[2] = <<N_CALL, Str(B_test)>>
    /\ get_field(last.out[1], Unit("WorkedCall")) = Some(B_test)

\* What the claims say of a grid square text.
IsAsciiText(text) == \A n \in 1..Len(text) : text[n] <= 127
IsAcceptedGrid(grid) == IsAsciiText(grid) /\ Len(grid) \in {4, 6}

\* C14: the validation returns an error for every input whose length is not 4
\* or 6 and for every input with a character that is not ASCII, in whatever
\* letter case, and a value for every ASCII input of length 4 or 6; in an
\* import the error ends the record before the store is written.
C14_GridValidationRejects ==
    /\ last.op = "prettyvalidate_gridsquare" =>
        last.res = IF IsAcceptedGrid(last.arg) THEN "ok" ELSE "err"
    /\ last.op = "import_gridsquare" =>
        IF IsAcceptedGrid(last.arg)
        THEN last.res = "ok" /\ last.out.record # None
             /\ has_field(last.out.record[1], Unit("GridSquare"))
        ELSE last.res = "err" /\ last.out.db = CreatedStore

\* An import refused for a grid of four bytes that are not ASCII.
C14_Witness ==
    /\ last.op = "import_gridsquare" /\ last.res = "err"
    /\ Len(last.arg) = 4 /\ ~IsAsciiText(last.arg)
    /\ last.out.record = None

IsLowerLetter(b) == b \in 97..122
IsUpperLetter(b) == b \in 65..90
\* The same character up to letter case.
SameUpToCase(a, b) ==
    \/ a = b
    \/ IsLowerLetter(a) /\ b = a - 32
    \/ IsUpperLetter(a) /\ b = a + 32

B_aA00aA == <<97, 65, 48, 48, 97, 65>>
B_AA00aa == <<65, 65, 48, 48, 97, 97>>
B_aa00 == <<97, 97, 48, 48>>

\* The normalized form of an accepted grid, as the claim describes it.
IsNormalizedOf(val, grid) ==
    /\ Len(val) = Len(grid)
    /\ \A n \in 1..Len(grid) : SameUpToCase(grid[n], val[n])
    /\ \A n \in 1..Len(val) : n <= 4 => ~IsLowerLetter(val[n])
    /\ \A n \in 1..Len(val) : n > 4 => ~IsUpperLetter(val[n])
    /\ grid \in {B_aA00aA, B_aa00AA} => val = B_AA00aa
    /\ grid = B_aa00 => val = B_AA00

\* C15: an accepted grid is returned with the same length and the same
\* characters up to letter case: four characters all in upper case; six
\* characters with the first four in upper case and the last two in lower case
\* (aA00aA and aa00AA give AA00aa, aa00 gives AA00).  For prettyvalidate_gridsquare
\* and for pretty_gridsquare.
C15_GridNormalizedForm ==
    (last.op \in {"prettyvalidate_gridsquare", "pretty_gridsquare"} /\ last.res = "ok") =>
        IsNormalizedOf(last.out.once.val, last.arg)

\* aa00AA normalized to AA00aa.
C15_Witness ==
    /\ last.op = "prettyvalidate_gridsquare" /\ last.res = "ok"
    /\ last.arg = B_aa00AA /\ last.out.once.val = B_AA00aa

\* C16: for every grid the validation accepts, the validation applied to its
\* result succeeds and returns that same result.
C16_GridNormalizationIdempotent ==
    (last.op = "prettyvalidate_gridsquare" /\ last.res = "ok") =>
        /\ last.out.twice.ok
        /\ last.out.twice.val = last.out.once.val

\* A grid that the first application changed and the second did not.
C16_Witness ==
    /\ last.op = "prettyvalidate_gridsquare" /\ last.res = "ok"
    /\ Len(last.arg) = 6 /\ last.out.once.val # last.arg
    /\ last.out.twice.ok /\ last.out.twice.val = last.out.once.val

\* The length field of a tag: the text after the first ':' up to the next ':'
\* or '>'.
LengthField(tag) ==
    sub(tag, find_from(tag, 1, <<58>>) + 1,
        first_of({q \in (find_from(tag, 1, <<58>>) + 1)..Len(tag) : tag[q] \in {58, 62}}) - 1)

\* A length field that is not decimal digits.
IsMalformedLength(tag) ==
    LengthField(tag) = <<>> \/ \E n \in 1..Len(LengthField(tag)) : LengthField(tag)[n] \notin 48..57

\* C17: a tag whose length field is malformed (not decimal digits, as in
\* <CALL:x>N0CALL or <CALL:>N0CALL) makes parse_tokens fail; the tag is never
\* passed over while the other tokens of the text are returned.
C17_MalformedLengthFailsHard ==
    (last.op = "parse_tokens" /\ \E n \in 1..Len(last.arg) : IsMalformedLength(last.arg[n]))
        => last.res = "panic"

\* ------------------------------------------------------------ insert_record, step by step

\* The three store operations of insert_record, each atomic in sled: the read
\* of INDEX, the write of the record at slot idx, the write of idx + 1.
insert_record_read(db) == get_idx(db)
insert_record_write(db, idx, record, fails) == modify_record(db, idx, record, fails)

\* Variants of the last step: INDEX read again before it is written, and
\* INDEX advanced by two.
insert_record_bump_reread(db, idx, fails) == set_idx(db, get_idx(db).out + 1, fails)
insert_record_bump_two(db, idx, fails) == set_idx(db, idx + 2, fails)

insert_record_bump(db, idx, fails) == set_idx(db, idx + 1, fails)

\* A writer is a Log over the Db (sled's Db is shared by its clones) and the
\* insert_record call it is in: pc is "idle" (no call), "read" (idx read) or
\* "written" (record written); res is how its last call ended; oks lists
\* <<idx, record>> of its calls that returned Ok; overlapped tells whether its
\* last call ran while another writer's call was in progress.
NoCall ==
    [pc |-> "idle", idx |-> 0, record |-> <<>>, res |-> "none", calls |-> 0,
     oks |-> <<>>, overlapped |-> FALSE]

InCall(w) == writers[w].pc # "idle"
OthersInCall(w) == \E o \in DOMAIN writers \ {w} : InCall(o)

\* One writer or two, on a store that new_init has just made.
StepInit ==
    /\ store = CreatedStore
    /\ log = "open" /\ last = Idle /\ hist = <<>> /\ fresh = TRUE
    /\ header0 = Some(LogHeader_new(B_W1AW, B_test))
    /\ writers \in {[w \in 1..n |-> NoCall] : n \in 1..2}

\* let idx = self.get_idx();
ReadIndex(w) ==
    /\ writers[w].pc = "idle" /\ writers[w].calls < MaxCalls
    /\ \E record \in Records :
        writers' = [o \in DOMAIN writers |->
            IF o = w
            THEN [writers[w] EXCEPT !.pc = "read", !.idx = insert_record_read(store).out,
                                    !.record = record, !.res = "none",
                                    !.calls = writers[w].calls + 1,
                                    !.overlapped = OthersInCall(w)]
            ELSE IF InCall(o) THEN [writers[o] EXCEPT !.overlapped = TRUE]
            ELSE writers[o]]
    /\ UNCHANGED <<store, log, last, hist, fresh, header0>>

\* self.modify_record(idx, record)?; a failed store write is todo!().
WriteRecord(w) ==
    /\ writers[w].pc = "read"
    /\ \E fails \in BOOLEAN :
        LET r == insert_record_write(store, writers[w].idx, writers[w].record, fails) IN
        /\ store' = r.db
        /\ writers' = [writers EXCEPT ![w].pc = IF r.res = "ok" THEN "written" ELSE "idle",
                                      ![w].res = IF r.res = "ok" THEN "none" ELSE r.res]
    /\ UNCHANGED <<log, last, hist, fresh, header0>>

\* self.set_idx(idx + 1)?; Ok(())
WriteIndex(w) ==
    /\ writers[w].pc = "written"
    /\ \E fails \in BOOLEAN :
        LET r == insert_record_bump(store, writers[w].idx, fails) IN
        /\ store' = r.db
        /\ writers' = [writers EXCEPT
                ![w].pc = "idle", ![w].res = r.res,
                ![w].oks = IF r.res = "ok"
                           THEN Append(writers[w].oks, <<writers[w].idx, writers[w].record>>)
                           ELSE writers[w].oks]
    /\ UNCHANGED <<log, last, hist, fresh, header0>>

\* The process stops in the middle of a call; the store keeps what was written.
Stop(w) ==
    /\ InCall(w)
    /\ writers' = [writers EXCEPT ![w].pc = "idle", ![w].res = "stopped"]
    /\ UNCHANGED <<store, log, last, hist, fresh, header0>>

StepNext ==
    \/ \E w \in DOMAIN writers : ReadIndex(w)
    \/ \E w \in DOMAIN writers : WriteRecord(w)
    \/ \E w \in DOMAIN writers : WriteIndex(w)
    \/ \E w \in DOMAIN writers : Stop(w)

StepSpec == StepInit /\ [][StepNext]_vars

\* The record slots that hold bytes.
WrittenSlots(db) == {i \in 0..(2 * MaxCalls) : SlotPresent(db, i)}
OneWriter == DOMAIN writers = {1}

\* C18: insert_record reads INDEX, writes the record at slot INDEX, then
\* writes INDEX + 1.  So in every state of a store touched only by new_init
\* and insert_record, between the two writes and after a failed or stopped
\* call too, every slot below INDEX holds a record and INDEX is at most the
\* number of written slots; with one writer the only slot written at or above
\* INDEX is slot INDEX itself (an orphan), and the next call, having read
\* INDEX, writes its record there.
C18_InsertWriteOrder ==
    /\ IndexReadable(store)
    /\ \A i \in 0..(IndexOf(store) - 1) : SlotDecodes(store, i)
    /\ IndexOf(store) <= Cardinality(WrittenSlots(store))
    /\ OneWriter =>
        /\ WrittenSlots(store) \subseteq 0..IndexOf(store)
        /\ InCall(1) => writers[1].idx = IndexOf(store)
        /\ writers[1].pc = "written" =>
            store[Slot(IndexOf(store))] = encode_record(writers[1].record)

\* After one call that returned Ok, a call whose INDEX write failed: its record
\* is an orphan at slot INDEX.
C18_Witness ==
    /\ OneWriter /\ writers[1].pc = "idle" /\ writers[1].res = "err"
    /\ Len(writers[1].oks) = 1 /\ IndexOf(store) = 1
    /\ SlotPresent(store, 1)

\* Two writers have each made one call, both calls returned Ok, none is in
\* progress.
BothInsertedOnce ==
    /\ DOMAIN writers = {1, 2}
    /\ \A w \in {1, 2} :
        writers[w].pc = "idle" /\ writers[w].calls = 1 /\ Len(writers[w].oks) = 1

IdxOfCall(w) == writers[w].oks[1][1]
RecordOfCall(w) == writers[w].oks[1][2]
Interleaved == writers[1].overlapped \/ writers[2].overlapped

\* C19: two insert_record calls of two writers on one store.  When their
\* steps interleave and both return Ok, both have read the same INDEX: INDEX
\* has advanced by one only, one slot is written and it holds the record of one
\* of the calls, the other record is lost.  When one call runs after the other,
\* INDEX has advanced by two and each record is in the slot its call read.
C19_InterleavedInsertLosesRecord ==
    BothInsertedOnce =>
        IF Interleaved
        THEN /\ IdxOfCall(1) = 0 /\ IdxOfCall(2) = 0
             /\ IndexOf(store) = 1
             /\ WrittenSlots(store) = {0}
             /\ store[Slot(0)] \in {encode_record(RecordOfCall(1)), encode_record(RecordOfCall(2))}
        ELSE /\ {IdxOfCall(1), IdxOfCall(2)} = {0, 1}
             /\ IndexOf(store) = 2
             /\ WrittenSlots(store) = {0, 1}
             /\ \A w \in {1, 2} : store[Slot(IdxOfCall(w))] = encode_record(RecordOfCall(w))

\* Both calls returned Ok, INDEX is 1 and the record of writer 1 is not in the
\* store.
C19_Witness ==
    /\ BothInsertedOnce /\ Interleaved
    /\ IndexOf(store) = 1
    /\ RecordOfCall(1) # RecordOfCall(2)
    /\ \A i \in WrittenSlots(store) : store[Slot(i)] # encode_record(RecordOfCall(1))

=============================================================================
